---- MODULE Spec2Model ----
(***************************************************************************)
(* Enzyme Kinetics Analyzer: the two Streamlit scripts of the repository,  *)
(*   src/MM_kinetics_app.py  (two pasted text columns; app = "text")       *)
(*   src/streamlit_app.py    (an uploaded CSV file;    app = "csv")        *)
(* as one state machine.  A Streamlit script runs top to bottom on every   *)
(* widget interaction; the widgets keep their values between runs, the     *)
(* script's own names do not.                                              *)
(*                                                                         *)
(* Numbers.  A float is a record [n, d] with d >= 0 in lowest terms:       *)
(* n/d for d > 0, and 1/0 = +inf, -1/0 = -inf, 0/0 = NaN.  Arithmetic is   *)
(* exact on finite values (no rounding) and follows IEEE-754 / numpy on    *)
(* the others: numpy divides by zero without raising.  Signed zeros are    *)
(* not told apart.                                                         *)
(***************************************************************************)
EXTENDS Integers, Sequences, FiniteSets, TLC

\* ------------------------------------------------------------------ bounds
\* Longest pasted column / most CSV rows.
MaxLen == 2
\* Runs of the script in one session (the first run plus reruns).
MaxRuns == 3
\* Largest true Vmax and Km of the noiseless data sets.
MaxParam == 4

\* ------------------------------------------------------------ float values
Abs(i) == IF i < 0 THEN -i ELSE i
Sgn(i) == IF i < 0 THEN -1 ELSE IF i > 0 THEN 1 ELSE 0

RECURSIVE GCD(_, _)
GCD(a, b) == IF b = 0 THEN a ELSE GCD(b, a % b)

\* n/d in lowest terms with d >= 0; d = 0 gives inf, -inf or NaN by n's sign.
Norm(n, d) ==
  IF d = 0 THEN [n |-> Sgn(n), d |-> 0]
  ELSE LET s == IF d < 0 THEN -1 ELSE 1
           g == GCD(Abs(n), Abs(d))
       IN  [n |-> (s * n) \div g, d |-> (s * d) \div g]

Num(i) == [n |-> i, d |-> 1]
Zero == Num(0)
One == Num(1)
NaN == [n |-> 0, d |-> 0]
PosInf == [n |-> 1, d |-> 0]
NegInf == [n |-> -1, d |-> 0]

IsNaN(x) == x.d = 0 /\ x.n = 0
IsFinite(x) == x.d > 0

\* numpy float64 arithmetic.
FMul(x, y) == Norm(x.n * y.n, x.d * y.d)
FRecip(x) == Norm(x.d, x.n)
FDiv(x, y) == FMul(x, FRecip(y))
FNeg(x) == [n |-> -x.n, d |-> x.d]
FAdd(x, y) ==
  IF x.d = 0 /\ y.d = 0
  THEN (IF x.n = y.n THEN x ELSE NaN)
  ELSE Norm(x.n * y.d + y.n * x.d, x.d * y.d)
FSub(x, y) == FAdd(x, FNeg(y))

\* IEEE comparisons: every comparison with NaN is false.
FEq(x, y) == ~IsNaN(x) /\ ~IsNaN(y) /\ x = y
FLt(x, y) ==
  /\ ~IsNaN(x) /\ ~IsNaN(y)
  /\ IF x.d = 0 \/ y.d = 0
     THEN (x = NegInf /\ y # NegInf) \/ (y = PosInf /\ x # PosInf)
     ELSE x.n * y.d < y.n * x.d

RECURSIVE FSum(_)
FSum(xs) == IF xs = <<>> THEN Zero ELSE FAdd(Head(xs), FSum(Tail(xs)))

\* np.mean
FMean(xs) == FDiv(FSum(xs), Num(Len(xs)))

\* Python's builtin max / min over a non-empty sequence, left to right:
\* an element replaces the running value only when it compares greater
\* (smaller), so a NaN that is not first is skipped.
RECURSIVE PyMaxFrom(_, _)
PyMaxFrom(m, xs) ==
  IF xs = <<>> THEN m
  ELSE PyMaxFrom(IF FLt(m, Head(xs)) THEN Head(xs) ELSE m, Tail(xs))
PyMax(xs) == PyMaxFrom(Head(xs), Tail(xs))

RECURSIVE PyMinFrom(_, _)
PyMinFrom(m, xs) ==
  IF xs = <<>> THEN m
  ELSE PyMinFrom(IF FLt(Head(xs), m) THEN Head(xs) ELSE m, Tail(xs))
PyMin(xs) == PyMinFrom(Head(xs), Tail(xs))

\* Elementwise operations on a pandas Series / numpy array.
Recips(xs) == [i \in 1..Len(xs) |-> FRecip(xs[i])]

\* Insertion of x into an ascending sequence; np.sort.
RECURSIVE Insert(_, _)
Insert(x, xs) ==
  IF xs = <<>> THEN <<x>>
  ELSE IF FLt(Head(xs), x) THEN <<Head(xs)>> \o Insert(x, Tail(xs))
  ELSE <<x>> \o xs
RECURSIVE Sorted(_)
Sorted(xs) == IF xs = <<>> THEN <<>> ELSE Insert(Head(xs), Sorted(Tail(xs)))

\* np.median: NaN for an empty or NaN-holding array, else the middle of the
\* sorted values (the mean of the two middle ones for an even count).
Median(xs) ==
  IF xs = <<>> \/ \E i \in 1..Len(xs) : IsNaN(xs[i]) THEN NaN
  ELSE LET s == Sorted(xs)
           k == Len(xs)
       IN  IF k % 2 = 1 THEN s[(k + 1) \div 2]
           ELSE FDiv(FAdd(s[k \div 2], s[k \div 2 + 1]), Num(2))

\* ------------------------------------------------------------------ inputs
\* What a user types into a text box or a CSV cell, one token per line/cell.
NumericTokens == {"0", "1", "2", "3"}
Tokens == NumericTokens \cup {"abc", "NA"}

\* Python float(token) / numpy's string-to-float: the value, or no value
\* (ValueError) when the token is no number.
CanParse(t) == t \in NumericTokens
ParseFloat(t) ==
  CASE t = "0" -> Num(0)
    [] t = "1" -> Num(1)
    [] t = "2" -> Num(2)
    [] t = "3" -> Num(3)

SeqsUpTo(T, k) == UNION {[1..m -> T] : m \in 0..k}

\* The content of a text area: "" (the empty sequence), white space only
\* (the one item " "), or tokens separated by newlines.
Blank == " "
Texts == {<<Blank>>} \cup SeqsUpTo(Tokens, MaxLen)

\* st.sidebar.selectbox options (two of each list are modelled).
s_unit_options == <<"mM", "uM">>
v_unit_options == <<"uM/min", "uM/s">>

\* An uploaded CSV file: none, or a header and rows of two cells.  A file
\* without the two named columns is modelled with no rows.
NoFile == [present |-> FALSE, columns |-> FALSE, rows |-> <<>>]
Files ==
  {NoFile, [present |-> TRUE, columns |-> FALSE, rows |-> <<>>]}
  \cup {[present |-> TRUE, columns |-> TRUE, rows |-> r] :
          r \in SeqsUpTo(Tokens \X Tokens, MaxLen)}

\* ------------------------------------------------------- library functions
\* def michaelis_menten(S, Vmax, Km): return (Vmax * S) / (Km + S)
michaelis_menten(x, Vmax, Km) == FDiv(FMul(Vmax, x), FAdd(Km, x))

AllFinite(xs) == \A i \in 1..Len(xs) : IsFinite(xs[i])

\* The parameter pairs with Vmax > 0 and Km > 0 that the data satisfy
\* exactly.  v*(Km + S) = Vmax*S is linear in (Vmax, Km): two rows with a
\* non-zero determinant fix the pair (Cramer's rule), the others must agree.
ExactParams(xs, ys) ==
  LET b(i) == FMul(xs[i], ys[i])
      det(i, j) == FSub(FMul(ys[i], xs[j]), FMul(xs[i], ys[j]))
      vmax(i, j) == FDiv(FSub(FMul(ys[i], b(j)), FMul(b(i), ys[j])), det(i, j))
      km(i, j) == FDiv(FSub(FMul(xs[i], b(j)), FMul(xs[j], b(i))), det(i, j))
      fits(p) == /\ FLt(Zero, p[1]) /\ FLt(Zero, p[2])
                 /\ \A k \in 1..Len(xs) :
                      FEq(michaelis_menten(xs[k], p[1], p[2]), ys[k])
  IN  {p \in {<<vmax(i, j), km(i, j)>> :
                 i, j \in 1..Len(xs)} :
         IsFinite(p[1]) /\ IsFinite(p[2]) /\ fits(p)}

\* The value curve_fit converges to on data no parameter pair fits exactly:
\* a local least-squares minimiser near p0.  It is not computed; it is named
\* by what determines it.
Estimate(which, xs, ys, p0) ==
  [lsq |-> which, xdata |-> xs, ydata |-> ys, p0 |-> p0]

\* scipy.optimize.curve_fit(michaelis_menten, S, v, p0) with method "lm".
\*   ValueError   a NaN or inf in the data (check_finite), or no data;
\*   TypeError    fewer data points than the 2 parameters (leastsq);
\*   RuntimeError MINPACK did not converge.
\* On data that one positive parameter pair fits exactly the zero-residual
\* minimiser is returned.  On other data MINPACK's verdict is not derived:
\* `converges` stands for it.
curve_fit(xs, ys, p0, converges) ==
  IF ~AllFinite(xs) \/ ~AllFinite(ys) \/ ys = <<>>
  THEN [raised |-> TRUE, exc |-> "ValueError"]
  ELSE IF Len(ys) < 2
  THEN [raised |-> TRUE, exc |-> "TypeError"]
  ELSE IF ExactParams(xs, ys) # {}
  THEN LET p == CHOOSE q \in ExactParams(xs, ys) : TRUE
       IN  [raised |-> FALSE, exact |-> TRUE, Vmax |-> p[1], Km |-> p[2]]
  ELSE IF converges
  THEN [raised |-> FALSE, exact |-> FALSE,
        Vmax |-> Estimate("Vmax", xs, ys, p0),
        Km |-> Estimate("Km", xs, ys, p0)]
  ELSE [raised |-> TRUE, exc |-> "RuntimeError"]

\* scipy.stats.linregress(x, y): ordinary least squares of y on x.
\*   ValueError   empty input, or more than one point and all x identical.
\* One point, an infinite x or an infinite y raise nothing: the quotients
\* are NaN.
linregress(x, y) ==
  IF x = <<>> \/ y = <<>>
  THEN [raised |-> TRUE, exc |-> "ValueError"]
  ELSE IF FEq(PyMax(x), PyMin(x)) /\ Len(x) > 1
  THEN [raised |-> TRUE, exc |-> "ValueError"]
  ELSE LET xmean == FMean(x)
           ymean == FMean(y)
           dx == [i \in 1..Len(x) |-> FSub(x[i], xmean)]
           dy == [i \in 1..Len(y) |-> FSub(y[i], ymean)]
           ssxm == FMean([i \in 1..Len(x) |-> FMul(dx[i], dx[i])])
           ssxym == FMean([i \in 1..Len(x) |-> FMul(dx[i], dy[i])])
           slope == FDiv(ssxym, ssxm)
           intercept == FSub(ymean, FMul(slope, xmean))
       IN  [raised |-> FALSE, slope |-> slope, intercept |-> intercept]

\* f"{x:.2f}": a finite value to the nearest hundredth (ties to even), inf
\* and nan by name; an uncomputed estimate stays named.
IsEstimate(x) == "lsq" \in DOMAIN x
Format2f(x) ==
  IF IsEstimate(x) THEN [text |-> "estimate", hundredths |-> 0, of |-> x]
  ELSE IF IsNaN(x) THEN [text |-> "nan", hundredths |-> 0]
  ELSE IF x.d = 0 THEN [text |-> IF x.n > 0 THEN "inf" ELSE "-inf",
                        hundredths |-> 0]
  ELSE LET a == Abs(x.n) * 100
           q == a \div x.d
           r == a % x.d
           up == 2 * r > x.d \/ (2 * r = x.d /\ q % 2 = 1)
       IN  [text |-> "number",
            hundredths |-> Sgn(x.n) * (IF up THEN q + 1 ELSE q)]

\* ------------------------------------------------------------------- state
VARIABLES
  app,            \* which script runs: "text" or "csv"
  s_string,       \* st.text_area "[S] Column"
  v_string,       \* st.text_area "V0 Column"
  uploaded_file,  \* st.file_uploader
  S_units,        \* sidebar "Substrate Units"
  v_units,        \* sidebar "Velocity Units"
  lm_converges,   \* MINPACK's verdict on data it is not derived for
  runs,           \* runs of the script so far in this session
  pc,             \* the script's position
  s_vals,         \* tokens of s_string
  v_vals,         \* tokens of v_string
  S,              \* data['Substrate_Concentration']
  v,              \* data['Initial_Velocity']
  params,         \* curve_fit's result: Vmax_fit, Km_fit
  lb,             \* the linear fit's names: inv_S .. x_intercept_val
  page,           \* what the run has put on the page
  did             \* the library calls this run has made

widgets == <<app, s_string, v_string, uploaded_file, S_units, v_units>>
locals == <<s_vals, v_vals, S, v, params, lb>>
vars == <<app, s_string, v_string, uploaded_file, S_units, v_units,
          lm_converges, runs, pc, s_vals, v_vals, S, v, params, lb, page, did>>

\* A name the run has not assigned yet.
Unset == [unset |-> TRUE]
NoColumn == [dtype |-> "unset", vals |-> <<>>]
NoError == [kind |-> "none", n_s |-> 0, n_v |-> 0]
EmptyPage ==
  [error |-> NoError, warning |-> "", results |-> Unset,
   fig1 |-> Unset, fig2 |-> Unset, howto |-> FALSE]

\* A rerun that starts with the last run's page still in place.
FreshRunKeepsPage ==
  /\ pc' = "start"
  /\ s_vals' = <<>> /\ v_vals' = <<>>
  /\ S' = NoColumn /\ v' = NoColumn
  /\ params' = Unset /\ lb' = Unset
  /\ page' = page
  /\ did' = {}

\* A fresh run: the script's namespace is new and the page is cleared.
FreshRun ==
  /\ pc' = "start"
  /\ s_vals' = <<>> /\ v_vals' = <<>>
  /\ S' = NoColumn /\ v' = NoColumn
  /\ params' = Unset /\ lb' = Unset
  /\ page' = EmptyPage
  /\ did' = {}

Init ==
  /\ app \in {"text", "csv"}
  /\ IF app = "text"
     THEN s_string \in Texts /\ v_string \in Texts /\ uploaded_file = NoFile
     ELSE s_string = <<>> /\ v_string = <<>> /\ uploaded_file \in Files
  /\ S_units = s_unit_options[1]
  /\ v_units = v_unit_options[1]
  /\ lm_converges \in BOOLEAN
  /\ runs = 1
  /\ pc = "start"
  /\ s_vals = <<>> /\ v_vals = <<>>
  /\ S = NoColumn /\ v = NoColumn
  /\ params = Unset /\ lb = Unset
  /\ page = EmptyPage
  /\ did = {}

\* An error message without the st.stop() after it: the script goes on.
ErrorWithoutStop(err, warn) ==
  /\ page' = [page EXCEPT !.error = err, !.warning = warn]
  /\ pc' = "howto"

\* st.error(...) [st.warning(...)] st.stop(): the message goes on the page and
\* the script ends there.  st.stop() raises StopException, which is not an
\* Exception subclass, so no `except Exception` of the script catches it.
StopWith(err, warn) ==
  /\ page' = [page EXCEPT !.error = err, !.warning = warn]
  /\ pc' = "stopped"

FitWarning ==
  "Could not calculate kinetics. Check your data for outliers or zero values."
ReadWarning ==
  "Please ensure your file has columns: 'Substrate_Concentration' and 'Initial_Velocity'"
FitError == [kind |-> "fit", n_s |-> 0, n_v |-> 0]

\* ------------------------------------------------- MM_kinetics_app.py input
\* `if s_string and v_string:` -- an empty string skips the whole analysis.
TextGuard ==
  /\ app = "text" /\ pc = "start"
  /\ pc' = IF s_string # <<>> /\ v_string # <<>> THEN "split" ELSE "howto"
  /\ UNCHANGED <<widgets, lm_converges, runs, locals, page, did>>

\* str.split(): the tokens between runs of white space.
Split(text) == SelectSeq(text, LAMBDA t : t # Blank)

\* A length check that reports the [S] count for both columns.
MismatchSameCount(a, b) == [kind |-> "mismatch", n_s |-> Len(a), n_v |-> Len(a)]

\* f"Data Mismatch: You have {len(s_vals)} [S] values but {len(v_vals)} V0 values."
Mismatch(a, b) == [kind |-> "mismatch", n_s |-> Len(a), n_v |-> Len(b)]

\* s_vals / v_vals and the length check.
SplitAndCheck ==
  /\ app = "text" /\ pc = "split"
  /\ s_vals' = Split(s_string)
  /\ v_vals' = Split(v_string)
  /\ did' = did \cup {"split"}
  /\ IF Len(s_vals') # Len(v_vals')
     THEN StopWith(Mismatch(s_vals', v_vals'), "")
     ELSE pc' = "astype" /\ page' = page
  /\ UNCHANGED <<widgets, lm_converges, runs, S, v, params, lb>>

\* pd.DataFrame({...}).astype(float): every token converts, or ValueError.
AsFloat(toks) == [dtype |-> "float64", vals |-> [i \in 1..Len(toks) |-> ParseFloat(toks[i])]]
AllParse(toks) == \A i \in 1..Len(toks) : CanParse(toks[i])

ConvertError == [kind |-> "convert", n_s |-> 0, n_v |-> 0]

Convert ==
  /\ app = "text" /\ pc = "astype"
  /\ did' = did \cup {"astype"}
  /\ IF AllParse(s_vals) /\ AllParse(v_vals)
     THEN /\ S' = AsFloat(s_vals) /\ v' = AsFloat(v_vals)
          /\ pc' = "fit_nl" /\ page' = page
     ELSE /\ StopWith(ConvertError, "")
          /\ UNCHANGED <<S, v>>
  /\ UNCHANGED <<widgets, lm_converges, runs, s_vals, v_vals, params, lb>>

\* ---------------------------------------------------- streamlit_app.py input
\* `if uploaded_file is not None:`
CsvGuard ==
  /\ app = "csv" /\ pc = "start"
  /\ pc' = IF uploaded_file.present THEN "read_csv" ELSE "howto"
  /\ UNCHANGED <<widgets, lm_converges, runs, locals, page, did>>

\* pd.read_csv's column: float64 when every cell is a number or one of the
\* default NA strings (read as NaN), else the cells as strings (object).  A
\* column without rows is object.
CsvCell(t) == IF t = "NA" THEN NaN ELSE ParseFloat(t)
CsvColumn(cells) ==
  IF cells # <<>> /\ \A i \in 1..Len(cells) : CanParse(cells[i]) \/ cells[i] = "NA"
  THEN [dtype |-> "float64", vals |-> [i \in 1..Len(cells) |-> CsvCell(cells[i])]]
  ELSE [dtype |-> "object", vals |-> cells]

ReadError == [kind |-> "read", n_s |-> 0, n_v |-> 0]

ReadCsv ==
  /\ app = "csv" /\ pc = "read_csv"
  /\ did' = did \cup {"read_csv"}
  /\ IF uploaded_file.columns
     THEN /\ S' = CsvColumn([i \in 1..Len(uploaded_file.rows) |->
                               uploaded_file.rows[i][1]])
          /\ v' = CsvColumn([i \in 1..Len(uploaded_file.rows) |->
                               uploaded_file.rows[i][2]])
          /\ pc' = "fit_nl" /\ page' = page
     ELSE /\ StopWith(ReadError, ReadWarning)
          /\ UNCHANGED <<S, v>>
  /\ UNCHANGED <<widgets, lm_converges, runs, s_vals, v_vals, params, lb>>

\* ------------------------------------------------------------ the two fits
\* except Exception as e: st.error(f"Error during data fitting: {e}");
\* st.warning(...); st.stop()
FitFailed == StopWith(FitError, FitWarning)

\* 3.A. Non-linear Fit.  initial_guesses = [max(v), np.median(S)]: max() of
\* an empty column raises ValueError; a column of strings fails in
\* np.median or in curve_fit's conversion to float.
NonlinearFit ==
  /\ pc = "fit_nl"
  /\ LET usable == v.vals # <<>> /\ S.dtype = "float64" /\ v.dtype = "float64"
         p0 == <<PyMax(v.vals), Median(S.vals)>>
         fit == curve_fit(S.vals, v.vals, p0, lm_converges)
     IN  /\ did' = IF usable THEN did \cup {"curve_fit"} ELSE did
         /\ IF usable /\ ~fit.raised
            THEN /\ params' = [Vmax_fit |-> fit.Vmax, Km_fit |-> fit.Km,
                               exact |-> fit.exact, p0 |-> p0]
                 /\ pc' = "fit_lin" /\ page' = page
            ELSE /\ FitFailed
                 /\ UNCHANGED params
  /\ UNCHANGED <<widgets, lm_converges, runs, s_vals, v_vals, S, v, lb>>

\* MM_kinetics_app.py: non_zero_mask = S != 0; S[non_zero_mask], v[non_zero_mask]
non_zero_mask(xs) == {i \in 1..Len(xs) : ~FEq(xs[i], Zero)}
RECURSIVE Masked(_, _, _)
Masked(xs, mask, i) ==
  IF i > Len(xs) THEN <<>>
  ELSE (IF i \in mask THEN <<xs[i]>> ELSE <<>>) \o Masked(xs, mask, i + 1)

\* The rows the linear fit is given: MM_kinetics_app.py drops the rows with
\* S == 0, streamlit_app.py takes every row (inv_S = 1 / S).
LinearRows(a, xs, ys) ==
  IF a = "text"
  THEN [x |-> Masked(xs, non_zero_mask(xs), 1),
        y |-> Masked(ys, non_zero_mask(xs), 1)]
  ELSE [x |-> xs, y |-> ys]

\* A back-transform that divides the slope by Vmax instead of multiplying.
BackTransformDivides(slope, intercept) ==
  LET Vmax_lb == FDiv(One, intercept)
      Km_lb == FDiv(slope, Vmax_lb)
  IN  [Vmax_lb |-> Vmax_lb, Km_lb |-> Km_lb,
       x_intercept_val |-> FDiv(Num(-1), Km_lb)]

\* A back-transform that loses the sign of the x-intercept.
BackTransformUnsigned(slope, intercept) ==
  LET Vmax_lb == FDiv(One, intercept)
      Km_lb == FMul(slope, Vmax_lb)
  IN  [Vmax_lb |-> Vmax_lb, Km_lb |-> Km_lb,
       x_intercept_val |-> FDiv(One, Km_lb)]

\* Vmax_lb = 1 / intercept; Km_lb = slope * Vmax_lb; x_intercept_val = -1 / Km_lb
BackTransform(slope, intercept) ==
  LET Vmax_lb == FDiv(One, intercept)
      Km_lb == FMul(slope, Vmax_lb)
  IN  [Vmax_lb |-> Vmax_lb, Km_lb |-> Km_lb,
       x_intercept_val |-> FDiv(Num(-1), Km_lb)]

\* 3.B. Linear Fit as a function of the rows it is given and the script.
LinearFitOf(a, xs, ys) ==
  LET rows == LinearRows(a, xs, ys)
      inv_S == Recips(rows.x)
      inv_v == Recips(rows.y)
      regression == linregress(inv_S, inv_v)
  IN  IF regression.raised
      THEN [fitted |-> FALSE, inv_S |-> inv_S, inv_v |-> inv_v]
      ELSE LET bt == BackTransform(regression.slope, regression.intercept)
           IN  [fitted |-> TRUE, inv_S |-> inv_S, inv_v |-> inv_v,
                slope |-> regression.slope, intercept |-> regression.intercept,
                Vmax_lb |-> bt.Vmax_lb, Km_lb |-> bt.Km_lb,
                x_intercept_val |-> bt.x_intercept_val]

LinearFit ==
  /\ pc = "fit_lin"
  /\ lb' = LinearFitOf(app, S.vals, v.vals)
  /\ did' = did \cup {"linregress"}
  /\ IF lb'.fitted
     THEN pc' = "display" /\ page' = page
     ELSE FitFailed
  /\ UNCHANGED <<widgets, lm_converges, runs, s_vals, v_vals, S, v, params>>

\* ------------------------------------------------------------------ display
Label(name, unit) == [name |-> name, unit |-> unit]

\* Metrics that convert the linear Km to mM when another unit is selected.
MetricsConverted(su, vu, p, l) ==
  LET km == IF su = s_unit_options[1] THEN l.Km_lb
            ELSE FDiv(l.Km_lb, Num(1000))
  IN  [nl_Vmax |-> [label |-> Label("Vmax", vu), value |-> Format2f(p.Vmax_fit)],
       nl_Km |-> [label |-> Label("Km", su), value |-> Format2f(p.Km_fit)],
       lb_Vmax |-> [label |-> Label("Vmax", vu), value |-> Format2f(l.Vmax_lb)],
       lb_Km |-> [label |-> Label("Km", su), value |-> Format2f(km)]]

\* st.metric(label=f"Vmax ({v_units})", value=f"{Vmax_fit:.2f}") and so on.
Metrics(su, vu, p, l) ==
  [nl_Vmax |-> [label |-> Label("Vmax", vu), value |-> Format2f(p.Vmax_fit)],
   nl_Km |-> [label |-> Label("Km", su), value |-> Format2f(p.Km_fit)],
   lb_Vmax |-> [label |-> Label("Vmax", vu), value |-> Format2f(l.Vmax_lb)],
   lb_Km |-> [label |-> Label("Km", su), value |-> Format2f(l.Km_lb)]]

\* Plot 1: the data and michaelis_menten over np.linspace(0, max(S), 100).
Figure1(su, vu, xs, ys, p) ==
  [x |-> xs, y |-> ys,
   S_fit |-> [start |-> Zero, stop |-> PyMax(xs), num |-> 100],
   v_fit |-> [Vmax |-> p.Vmax_fit, Km |-> p.Km_fit],
   xaxis_title |-> Label("Substrate Concentration [S]", su),
   yaxis_title |-> Label("Initial Velocity (v)", vu)]

\* Plot 2: the transformed data and slope * x_fit + intercept over
\* np.linspace(min(0, x_intercept_val * 1.1), max(inv_S) * 1.1, 100).
Figure2(su, vu, l) ==
  [x |-> l.inv_S, y |-> l.inv_v,
   x_fit |-> [start |-> PyMin(<<Zero, FMul(l.x_intercept_val, Norm(11, 10))>>),
              stop |-> FMul(PyMax(l.inv_S), Norm(11, 10)), num |-> 100],
   y_fit |-> [slope |-> l.slope, intercept |-> l.intercept],
   xaxis_title |-> Label("1 / [S]", su),
   yaxis_title |-> Label("1 / v", vu)]

\* 5. Display Results, then the plots.
Display ==
  /\ pc = "display"
  /\ page' = [page EXCEPT !.results = Metrics(S_units, v_units, params, lb),
                          !.fig1 = Figure1(S_units, v_units, S.vals, v.vals, params),
                          !.fig2 = Figure2(S_units, v_units, lb)]
  /\ did' = did \cup {"display"}
  /\ pc' = "howto"
  /\ UNCHANGED <<widgets, lm_converges, runs, locals>>

\* st.header("How to Use") ...: the end of the script.
HowTo ==
  /\ pc = "howto"
  /\ page' = [page EXCEPT !.howto = TRUE]
  /\ pc' = "done"
  /\ UNCHANGED <<widgets, lm_converges, runs, locals, did>>

\* ------------------------------------------------------------------- reruns
Ended == pc \in {"done", "stopped"}

\* Streamlit reruns the script from the top on a widget interaction.
Rerun ==
  /\ Ended /\ runs < MaxRuns
  /\ runs' = runs + 1
  /\ FreshRun
  /\ UNCHANGED lm_converges

\* One edit of a text area: clear it, leave white space only, add a line,
\* delete the last line.
Edits(text) ==
  LET toks == Split(text)
  IN  ({<<>>, <<Blank>>}
        \cup {Append(toks, t) : t \in {u \in Tokens : Len(toks) < MaxLen}}
        \cup {SubSeq(toks, 1, Len(toks) - 1)}) \ {text}

EditS ==
  /\ app = "text" /\ Rerun
  /\ s_string' \in Edits(s_string)
  /\ UNCHANGED <<app, v_string, uploaded_file, S_units, v_units>>

EditV ==
  /\ app = "text" /\ Rerun
  /\ v_string' \in Edits(v_string)
  /\ UNCHANGED <<app, s_string, uploaded_file, S_units, v_units>>

\* Another file: none, one without the columns, one row more, one row less.
Uploads(f) ==
  ({NoFile, [present |-> TRUE, columns |-> FALSE, rows |-> <<>>]}
    \cup {[present |-> TRUE, columns |-> TRUE, rows |-> Append(f.rows, r)] :
            r \in {q \in Tokens \X Tokens : Len(f.rows) < MaxLen}}
    \cup {[present |-> TRUE, columns |-> TRUE,
           rows |-> SubSeq(f.rows, 1, Len(f.rows) - 1)]}) \ {f}

Upload ==
  /\ app = "csv" /\ Rerun
  /\ uploaded_file' \in Uploads(uploaded_file)
  /\ UNCHANGED <<app, s_string, v_string, S_units, v_units>>

SelectUnits ==
  /\ Rerun
  /\ \E i, j \in 1..2 :
       /\ S_units' = s_unit_options[i] /\ v_units' = v_unit_options[j]
       /\ <<S_units', v_units'>> # <<S_units, v_units>>
  /\ UNCHANGED <<app, s_string, v_string, uploaded_file>>

\* The same widgets again (the menu's "Rerun").
RerunSame ==
  /\ Rerun
  /\ UNCHANGED widgets

\* One run of the script, from any widget content.
Next ==
  \/ TextGuard \/ SplitAndCheck \/ Convert
  \/ CsvGuard \/ ReadCsv
  \/ NonlinearFit \/ LinearFit \/ Display \/ HowTo

Spec == Init /\ [][Next]_vars

\* A session: the page as first loaded, then runs and widget interactions.
\* The script's seven-line default columns are cut to two lines of the
\* model's tokens; no file is uploaded yet.
default_s == <<"1", "3">>
default_v == <<"2", "3">>

InitSession ==
  /\ app \in {"text", "csv"}
  /\ s_string = (IF app = "text" THEN default_s ELSE <<>>)
  /\ v_string = (IF app = "text" THEN default_v ELSE <<>>)
  /\ uploaded_file = NoFile
  /\ S_units = s_unit_options[1]
  /\ v_units = v_unit_options[1]
  /\ lm_converges \in BOOLEAN
  /\ runs = 1
  /\ pc = "start"
  /\ s_vals = <<>> /\ v_vals = <<>>
  /\ S = NoColumn /\ v = NoColumn
  /\ params = Unset /\ lb = Unset
  /\ page = EmptyPage
  /\ did = {}

NextSession ==
  \/ Next
  \/ EditS \/ EditV \/ Upload \/ SelectUnits \/ RerunSame

Session == InitSession /\ [][NextSession]_vars

\* ================================================================== claims
\* The two input sequences as the user gave them: the tokens of the two text
\* areas, or the two columns of the uploaded file's rows.
RawS ==
  IF app = "text" THEN Split(s_string)
  ELSE [i \in 1..Len(uploaded_file.rows) |-> uploaded_file.rows[i][1]]
RawV ==
  IF app = "text" THEN Split(v_string)
  ELSE [i \in 1..Len(uploaded_file.rows) |-> uploaded_file.rows[i][2]]

NothingFitted == params = Unset /\ lb = Unset
NothingShown ==
  page.results = Unset /\ page.fig1 = Unset /\ page.fig2 = Unset

MismatchReported ==
  /\ pc = "stopped"
  /\ page.error = [kind |-> "mismatch", n_s |-> Len(RawS), n_v |-> Len(RawV)]
  /\ did = {"split"}
  /\ S = NoColumn /\ v = NoColumn /\ NothingFitted /\ NothingShown

\* C1 as stated: whenever the two input sequences differ in length, the run
\* ends with the length-mismatch error naming both lengths, and nothing was
\* converted or fitted.
C1_Original ==
  (Ended /\ Len(RawS) # Len(RawV)) => MismatchReported

\* C1 for runs whose two text areas are both non-empty strings (an empty
\* text area skips the analysis without any message): sequences of different
\* length end the run with the length-mismatch error naming both lengths;
\* and a mismatch error is never on the page after a conversion or a fit.
C1_MismatchWhenBothGiven ==
  /\ (Ended /\ Len(RawS) # Len(RawV) /\ s_string # <<>> /\ v_string # <<>>)
       => MismatchReported
  /\ page.error.kind = "mismatch" => MismatchReported

C1_Witness ==
  /\ Ended /\ app = "text" /\ page.error.kind = "mismatch"
  /\ page.error.n_s = 2 /\ page.error.n_v = 1

NonNumeric(toks) == \E i \in 1..Len(toks) : ~CanParse(toks[i])

\* C2: whenever the two sequences have equal length and some entry is not a
\* number, the run ends with the non-numeric-value error; no column holds a
\* value made from the entry, and nothing was fitted or shown.
C2_NonNumericRejected ==
  (Ended /\ Len(RawS) = Len(RawV) /\ (NonNumeric(RawS) \/ NonNumeric(RawV))
     /\ (app = "csv" => uploaded_file.columns))
    => /\ pc = "stopped" /\ page.error.kind = "convert"
       /\ S = NoColumn /\ v = NoColumn
       /\ NothingFitted /\ NothingShown

\* C2 in MM_kinetics_app.py alone, where it holds.
C2_TextApp == app = "text" => C2_NonNumericRejected

\* C3: a run that emitted an error has stopped there and shows no results,
\* no chart and nothing after them; a run stops only with an error; results
\* are on the page only with both fits done; and a stopped run takes no
\* further step.
C3_FailureIsTerminal ==
  /\ page.error.kind # "none"
       => pc = "stopped" /\ NothingShown /\ ~page.howto /\ "display" \notin did
  /\ pc = "stopped" => page.error.kind # "none" /\ ~ENABLED Next
  /\ ~NothingShown
       => /\ page.results # Unset /\ page.fig1 # Unset /\ page.fig2 # Unset
          /\ params # Unset /\ lb # Unset /\ lb.fitted
  /\ (lb # Unset /\ ~lb.fitted) => pc = "stopped"

\* The nonlinear fit succeeded and the linear fit failed: nothing is shown.
C3_Witness ==
  /\ pc = "stopped" /\ page.error.kind = "fit"
  /\ params # Unset /\ lb # Unset /\ ~lb.fitted

\* The observation set without its zero-substrate rows.
NonZeroS == Masked(S.vals, non_zero_mask(S.vals), 1)
NonZeroV == Masked(v.vals, non_zero_mask(S.vals), 1)

\* C4: the linear fit's outcome (transformed points, slope, intercept, Vmax,
\* Km, x_intercept, or its failure) is the one the same estimator gives on
\* the observation set with the rows S == 0 removed.
C4_ZeroRowsExcluded ==
  lb # Unset => lb = LinearFitOf(app, NonZeroS, NonZeroV)

\* C4 in MM_kinetics_app.py alone, where it holds.
C4_TextApp == app = "text" => C4_ZeroRowsExcluded

\* C5: a regression whose intercept is 0 ends the run in the fitting error,
\* and no infinite or NaN Vmax, Km or x_intercept is kept or shown.
C5_ZeroInterceptFails ==
  (lb # Unset /\ lb.fitted /\ FEq(lb.intercept, Zero))
    => /\ pc = "stopped" /\ page.error.kind = "fit"
       /\ IsFinite(lb.Vmax_lb) /\ IsFinite(lb.Km_lb)
       /\ IsFinite(lb.x_intercept_val)

AllIdentical(xs) == \A i, j \in 1..Len(xs) : FEq(xs[i], xs[j])

\* C6: in MM_kinetics_app.py, an observation set with fewer than 2 points,
\* fewer than 2 points with S # 0, or all S identical ends the run in the
\* fitting error with no estimate shown.
C6_DegenerateDataFails ==
  (Ended /\ app = "text" /\ S # NoColumn
     /\ (Len(S.vals) < 2 \/ Len(NonZeroS) < 2 \/ AllIdentical(S.vals)))
    => pc = "stopped" /\ page.error.kind = "fit" /\ NothingShown

\* --------------------------------------------------- the run as a function
\* What one run of script `a` leaves, from the widgets alone: where it ends
\* and the page.
analyze(a, ss, vs, f, su, vu, conv) ==
  LET stopped(err, warn) ==
        [pc |-> "stopped",
         page |-> [EmptyPage EXCEPT !.error = err, !.warning = warn]]
      skipped == [pc |-> "done", page |-> [EmptyPage EXCEPT !.howto = TRUE]]
      fitted(xs, ys) ==
        IF ys.vals = <<>> \/ xs.dtype # "float64" \/ ys.dtype # "float64"
        THEN stopped(FitError, FitWarning)
        ELSE LET p0 == <<PyMax(ys.vals), Median(xs.vals)>>
                 fit == curve_fit(xs.vals, ys.vals, p0, conv)
                 l == LinearFitOf(a, xs.vals, ys.vals)
                 p == [Vmax_fit |-> fit.Vmax, Km_fit |-> fit.Km,
                       exact |-> fit.exact, p0 |-> p0]
             IN  IF fit.raised \/ ~l.fitted
                 THEN stopped(FitError, FitWarning)
                 ELSE [pc |-> "done",
                       page |-> [error |-> NoError, warning |-> "",
                                 results |-> Metrics(su, vu, p, l),
                                 fig1 |-> Figure1(su, vu, xs.vals, ys.vals, p),
                                 fig2 |-> Figure2(su, vu, l),
                                 howto |-> TRUE]]
  IN  IF a = "text"
      THEN IF ss = <<>> \/ vs = <<>> THEN skipped
           ELSE IF Len(Split(ss)) # Len(Split(vs))
           THEN stopped(Mismatch(Split(ss), Split(vs)), "")
           ELSE IF ~AllParse(Split(ss)) \/ ~AllParse(Split(vs))
           THEN stopped(ConvertError, "")
           ELSE fitted(AsFloat(Split(ss)), AsFloat(Split(vs)))
      ELSE IF ~f.present THEN skipped
           ELSE IF ~f.columns THEN stopped(ReadError, ReadWarning)
           ELSE fitted(CsvColumn([i \in 1..Len(f.rows) |-> f.rows[i][1]]),
                       CsvColumn([i \in 1..Len(f.rows) |-> f.rows[i][2]]))

Outcome == [pc |-> pc, page |-> page]

\* C7: in MM_kinetics_app.py, whatever runs came before in the session, a
\* finished run's outcome (its error, or its estimates and plotted series)
\* is the function `analyze` of the current widget values and of nothing
\* else: two runs on the same input end alike.
C7_OutcomeIsFunctionOfInput ==
  (Ended /\ app = "text")
    => Outcome = analyze(app, s_string, v_string, uploaded_file,
                         S_units, v_units, lm_converges)

\* A third run showing results, after two runs on other widget values.
C7_Witness ==
  /\ Ended /\ app = "text" /\ runs = 3 /\ page.results # Unset
  /\ s_string = default_s /\ v_string = default_v

\* An outcome without its unit labels: the messages, the values shown and
\* the plotted series.
Computed(o) ==
  [pc |-> o.pc, error |-> o.page.error, warning |-> o.page.warning,
   values |-> IF o.page.results = Unset THEN <<>>
              ELSE <<o.page.results.nl_Vmax.value, o.page.results.nl_Km.value,
                     o.page.results.lb_Vmax.value, o.page.results.lb_Km.value>>,
   series |-> IF o.page.fig1 = Unset THEN <<>>
              ELSE <<[x |-> o.page.fig1.x, y |-> o.page.fig1.y,
                      S_fit |-> o.page.fig1.S_fit, v_fit |-> o.page.fig1.v_fit],
                     [x |-> o.page.fig2.x, y |-> o.page.fig2.y,
                      x_fit |-> o.page.fig2.x_fit, y_fit |-> o.page.fig2.y_fit]>>]

\* C8: in MM_kinetics_app.py, a finished run's outcome without its labels is
\* the one the same data give under the default unit labels, and the labels
\* shown are the selected units.
C8_UnitsOnlyLabel ==
  (Ended /\ app = "text")
    => /\ Computed(Outcome)
            = Computed(analyze(app, s_string, v_string, uploaded_file,
                               s_unit_options[1], v_unit_options[1],
                               lm_converges))
       /\ page.results # Unset
            => /\ page.results.lb_Km.label.unit = S_units
               /\ page.results.lb_Vmax.label.unit = v_units
               /\ page.fig1.xaxis_title.unit = S_units
               /\ page.fig2.yaxis_title.unit = v_units

\* Results shown under both non-default unit labels.
C8_Witness ==
  /\ Ended /\ app = "text" /\ page.results # Unset
  /\ S_units = s_unit_options[2] /\ v_units = v_unit_options[2]
  /\ page.results.lb_Km.value.text = "number"

\* True parameter pairs of noiseless data.
TrueParams == {<<Num(a), Num(b)>> : a, b \in 1..MaxParam}

\* The observation set lies exactly on the rate law of p = <<Vmax, Km>> and
\* has at least 2 distinct non-zero substrate values.
Noiseless(p) ==
  /\ S.dtype = "float64" /\ v.dtype = "float64"
  /\ \A i \in 1..Len(S.vals) :
       FEq(michaelis_menten(S.vals[i], p[1], p[2]), v.vals[i])
  /\ Cardinality({NonZeroS[i] : i \in 1..Len(NonZeroS)}) >= 2

BackTransformRelations ==
  /\ lb.Vmax_lb = FDiv(One, lb.intercept)
  /\ lb.Km_lb = FMul(lb.slope, lb.Vmax_lb)
  /\ lb.x_intercept_val = FDiv(Num(-1), lb.Km_lb)

\* The fitted line is zero at x_intercept_val.
CrossesZero ==
  FEq(FAdd(FMul(lb.slope, lb.x_intercept_val), lb.intercept), Zero)

\* C10 as stated, for a regression with a finite slope and intercept:
\* whenever the linear fit succeeds the back-transform relations hold and
\* the fitted line crosses zero at x_intercept.
C10_Original ==
  (lb # Unset /\ lb.fitted /\ IsFinite(lb.slope) /\ IsFinite(lb.intercept))
    => BackTransformRelations /\ CrossesZero

\* C10 with the zero crossing kept to a non-zero slope: whenever the linear
\* fit succeeds the three relations hold (in float arithmetic, where 1/0 is
\* inf), and the fitted line crosses zero at x_intercept when slope and
\* intercept are finite and the slope is not 0.
C10_BackTransform ==
  (lb # Unset /\ lb.fitted)
    => /\ BackTransformRelations
       /\ (IsFinite(lb.slope) /\ IsFinite(lb.intercept) /\ ~FEq(lb.slope, Zero))
            => CrossesZero

\* A fit with a negative x-intercept where the line crosses zero.
C10_Witness ==
  /\ lb # Unset /\ lb.fitted /\ IsFinite(lb.slope) /\ FLt(Zero, lb.slope)
  /\ FLt(Zero, lb.intercept)
  /\ FLt(lb.x_intercept_val, Zero) /\ CrossesZero
====
